---- MODULE Spec2Model ----
(***************************************************************************)
(* Producer / Protocol / ProtocolConsumer state machines of                *)
(* pulsar/utils/pylib/protocols.py, driven by a single-threaded loop, and  *)
(* the loop extensions of pulsar/async/eventloop.py: LoopingCall (LoopSpec)*)
(* and the cross-loop wakeup of QueueTask (QueueSpec).                     *)
(*                                                                         *)
(* Every method is a pure operator from a program state s (a record of     *)
(* the producer, the protocols and the consumers) to the state it leaves;  *)
(* the actions apply one public call each.  data_received is the one       *)
(* method taken an iteration at a time, because every pass of its loop     *)
(* calls the protocol implementer's feed_data with a fresh outcome.        *)
(***************************************************************************)
EXTENDS Integers, Sequences, FiniteSets, TLC

VARIABLES
    producer,     \* the Producer: sessions, requests_processed
    protocols,    \* sequence of the Protocols created by create_protocol
    consumers,    \* sequence of every ProtocolConsumer ever built
    pc,           \* position of the loop thread inside data_received, and
                  \* the feed_data calls of the data_received call made last
    lastOp,       \* the public call made last and how it ended
    nops,         \* number of public calls made so far
    looping,      \* a LoopingCall and the loop it is scheduled on
    queue,        \* two loops on two threads and a QueueTask of the first
    clock,        \* the TimeTracker registry, its trackers and their timers
    runner        \* the test Runner, its task and its callbacks on the loop

vars == <<producer, protocols, consumers, pc, lastOp, nops, looping, queue,
          clock, runner>>

\* the state of the loop extensions, of the clock service and of the test
\* Runner, which no call on a Producer, a Protocol or a consumer touches
others == <<looping, queue, clock, runner>>

\* the state of the Producer, its Protocols and their consumers
protocolVars == <<producer, protocols, consumers, pc, lastOp, nops>>

----------------------------------------------------------------------------
(* Bounds of the model *)

MaxProtocols == 2
MaxData == 2
MaxOps == 4
MaxTime == 4
MaxCalls == 3
MaxAwaits == 3
MaxStalls == 1
MaxFeeds == 2
MaxRegisters == 3
MaxTicks == 2
MaxWall == 2
MaxClasses == 2
MaxTests == 1

(* Inputs *)

NoExc == "None"
Excs == {NoExc, "E1"}
Factories == {"F1", "F2"}
Observers == <<"obs1", "obs2">>
Alphabet == <<"A", "B", "C", "D">>
Buffers == {SubSeq(Alphabet, 1, k) : k \in 1..MaxData}
Requests == {"None", "req"}
\* the observers bound to the Producer's repeating events at bootstrap
Instrumentation == <<"instrument">>

----------------------------------------------------------------------------
(* Event: a named notification channel (pulsar.utils.pylib.events).        *)

NewEvent(name, onetime) ==
    [name |-> name, onetime |-> onetime, fired |-> FALSE, payload |-> NoExc,
     handlers |-> <<>>, waiter |-> FALSE, log |-> <<>>, late |-> 0]

\* whether fire() invokes the observers: a fired one-time event does nothing
EventFires(ev) == ~(ev.onetime /\ ev.fired)

\* fire(exc): the event after its observers were invoked with exc; log keeps
\* one <<observer, payload>> entry per invocation
EventFire(ev, exc) ==
    IF EventFires(ev)
    THEN [ev EXCEPT !.fired = ev.onetime,
                    !.payload = exc,
                    !.waiter = FALSE,
                    !.log = @ \o [i \in 1..Len(ev.handlers) |->
                                     <<ev.handlers[i], exc>>]]
    ELSE ev

\* whether bind() invokes the observer on the spot (one-time event, fired)
EventBindCalls(ev) == ev.onetime /\ ev.fired

\* bind(callback); late counts the observers bound after the firing
EventBind(ev, h) ==
    IF EventBindCalls(ev)
    THEN [ev EXCEPT !.log = Append(@, <<h, ev.payload>>), !.late = @ + 1]
    ELSE [ev EXCEPT !.handlers = Append(@, h)]

\* waiter(): a future resolved when the event next fires
EventWaiter(ev) == [ev EXCEPT !.waiter = TRUE]

\* handler.copy_many_times_events(other): the observers of the repeating
\* events of other are bound to the same events of handler
copy_many_times_events(h, other) == [h EXCEPT !.many = @ \o other.many]

----------------------------------------------------------------------------
(* ProtocolConsumer *)

\* the defect of post_request left out of ONE_TIME_EVENTS
ConsumerOneTimeEvents_repeating == {}

ConsumerOneTimeEvents == {"post_request"}

NewConsumer(p, factory) ==
    [connection |-> p, factory |-> factory, request |-> "None",
     post_request |-> NewEvent("post_request",
                               "post_request" \in ConsumerOneTimeEvents),
     starts |-> 0, many |-> <<>>]

\* the defect of a current_consumer() that builds the consumer and skips
\* the propagation of the Producer's observers
current_consumer_nocopy(s, p) ==
    IF s.protocols[p].current_consumer = 0
    THEN [s EXCEPT
            !.consumers = Append(@, NewConsumer(p, s.protocols[p].consumer_factory)),
            !.protocols[p].current_consumer = Len(s.consumers) + 1]
    ELSE s

\* Protocol.current_consumer
current_consumer(s, p) ==
    IF s.protocols[p].current_consumer = 0
    THEN [s EXCEPT
            !.consumers = Append(@, copy_many_times_events(
                NewConsumer(p, s.protocols[p].consumer_factory), s.producer)),
            !.protocols[p].current_consumer = Len(s.consumers) + 1]
    ELSE s

\* Producer.build_consumer; the factory builds a consumer for connection p
build_consumer(s, p, factory) ==
    [s EXCEPT !.consumers = Append(@, copy_many_times_events(
                                          NewConsumer(p, factory), s.producer))]

\* the defect of a finished_consumer that leaves the consumer attached
finished_consumer_keeps(s, p, c) == s

\* the defect of a finished_consumer without its identity check
finished_consumer_always(s, p, c) ==
    [s EXCEPT !.protocols[p].current_consumer = 0]

\* Protocol.finished_consumer
finished_consumer(s, p, c) ==
    IF s.protocols[p].current_consumer = c
    THEN [s EXCEPT !.protocols[p].current_consumer = 0]
    ELSE s

\* Protocol._build_consumer
build_consumer_cb(s, p) ==
    current_consumer([s EXCEPT !.protocols[p].current_consumer = 0], p)

\* ProtocolConsumer._finished
finished_cb(s, c) == finished_consumer(s, s.consumers[c].connection, c)

\* one observer of a consumer's post_request being called
CallPostRequest(s, c, h) ==
    CASE h = "_finished" -> finished_cb(s, c)
      [] h = "_build_consumer" -> build_consumer_cb(s, s.consumers[c].connection)
      [] OTHER -> s

RECURSIVE RunPostRequest(_, _, _)
RunPostRequest(s, c, hs) ==
    IF hs = <<>> THEN s
    ELSE RunPostRequest(CallPostRequest(s, c, Head(hs)), c, Tail(hs))

\* consumer.event('post_request').fire(exc=exc)
FirePostRequest(s, c, exc) ==
    LET ev == s.consumers[c].post_request IN
    IF EventFires(ev)
    THEN RunPostRequest([s EXCEPT !.consumers[c].post_request = EventFire(ev, exc)],
                        c, ev.handlers)
    ELSE s

\* consumer.event('post_request').bind(h)
BindPostRequest(s, c, h) ==
    LET ev == s.consumers[c].post_request
        s1 == [s EXCEPT !.consumers[c].post_request = EventBind(ev, h)]
    IN IF EventBindCalls(ev) THEN CallPostRequest(s1, c, h) ELSE s1

\* the defect of a start() that counts the request on the connection only
start_uncounted(s, c, request) ==
    LET p == s.consumers[c].connection
        s1 == [s EXCEPT !.protocols[p].processed = @ + 1,
                        !.consumers[c].starts = @ + 1]
        s2 == BindPostRequest(s1, c, "_finished")
    IN [s2 EXCEPT !.consumers[c].request =
                      IF request # "None" THEN request ELSE "dummy"]

\* ProtocolConsumer.start, up to the firing of pre_request
start(s, c, request) ==
    LET p == s.consumers[c].connection
        s1 == [s EXCEPT !.protocols[p].processed = @ + 1,
                        !.producer.requests_processed = @ + 1,
                        !.consumers[c].starts = @ + 1]
        s2 == BindPostRequest(s1, c, "_finished")
    IN [s2 EXCEPT !.consumers[c].request =
                      IF request # "None" THEN request ELSE "dummy"]

\* the defect of a start() that goes on to start_request after an aborter
start_steps_ignoring_abort(many, request, aborter) ==
    <<"counters", "bind">>
    \o (IF request = "None" THEN <<"create_request">> ELSE <<>>)
    \o <<"request">>
    \o SubSeq(many, 1, IF aborter = 0 THEN Len(many) ELSE aborter)
    \o <<"start_request">>

\* the steps of ProtocolConsumer.start in the order the code takes them;
\* many are the observers of pre_request, aborter the position of the one that
\* raises AbortEvent (0: none does), which ends the firing of the event
start_steps(many, request, aborter) ==
    <<"counters", "bind">>
    \o (IF request = "None" THEN <<"create_request">> ELSE <<>>)
    \o <<"request">>
    \o SubSeq(many, 1, IF aborter = 0 THEN Len(many) ELSE aborter)
    \o (IF aborter # 0 THEN <<"debug">> ELSE <<"start_request">>)

\* whether an exception escapes start(): AbortEvent is caught, what
\* start_request raises is not
StartRaises(aborter, raises) == aborter = 0 /\ raises

----------------------------------------------------------------------------
(* Protocol *)

\* the defect of connection_lost left out of ONE_TIME_EVENTS
ProtocolOneTimeEvents_repeating == {"connection_made"}

ProtocolOneTimeEvents == {"connection_made", "connection_lost"}

NewProtocol(session, factory) ==
    [session |-> session, processed |-> 0, data_received_count |-> 0,
     consumer_factory |-> factory, transport |-> FALSE, address |-> "None",
     changes |-> 0, current_consumer |-> 0, closed |-> "None",
     events |-> [n \in {"connection_made", "connection_lost"} |->
                    IF n = "connection_lost"
                    THEN EventBind(NewEvent(n, n \in ProtocolOneTimeEvents),
                                   "_connection_lost")
                    ELSE NewEvent(n, n \in ProtocolOneTimeEvents)],
     closeTask |-> "none", ntasks |-> 0, tcalls |-> <<>>, many |-> <<>>]

\* Protocol._connection_lost
connection_lost_cb(s, p, exc) ==
    IF s.protocols[p].current_consumer # 0
    THEN FirePostRequest(s, s.protocols[p].current_consumer, exc)
    ELSE s

CallProtocolEvent(s, p, h, exc) ==
    IF h = "_connection_lost" THEN connection_lost_cb(s, p, exc) ELSE s

RECURSIVE RunProtocolEvent(_, _, _, _)
RunProtocolEvent(s, p, hs, exc) ==
    IF hs = <<>> THEN s
    ELSE RunProtocolEvent(CallProtocolEvent(s, p, Head(hs), exc), p, Tail(hs), exc)

\* protocol.event(name).fire(exc=exc); a pending waiter wakes the close task
FireProtocolEvent(s, p, name, exc) ==
    LET ev == s.protocols[p].events[name] IN
    IF EventFires(ev)
    THEN LET s1 == [s EXCEPT !.protocols[p].events[name] = EventFire(ev, exc),
                             !.protocols[p].closeTask =
                                 IF ev.waiter /\ @ = "waiting" THEN "ready" ELSE @]
         IN RunProtocolEvent(s1, p, ev.handlers, exc)
    ELSE s

\* protocol.event(name).bind(h)
BindProtocolEvent(s, p, name, h) ==
    LET ev == s.protocols[p].events[name]
        s1 == [s EXCEPT !.protocols[p].events[name] = EventBind(ev, h)]
    IN IF EventBindCalls(ev) THEN CallProtocolEvent(s1, p, h, ev.payload) ELSE s1

\* Protocol.changed
changed(s, p) == [s EXCEPT !.protocols[p].changes = @ + 1]

\* the defect of a create_protocol() that leaves the session counter alone
create_protocol_nocount(s) ==
    LET n == s.producer.sessions IN
    [s EXCEPT !.protocols = Append(@, copy_many_times_events(
                                          NewProtocol(n, "F1"), s.producer))]

\* Producer.create_protocol with Protocol.__init__
create_protocol(s) ==
    LET n == s.producer.sessions + 1 IN
    [s EXCEPT !.producer.sessions = n,
              !.protocols = Append(@, copy_many_times_events(
                                          NewProtocol(n, "F1"), s.producer))]

\* Protocol.connection_made
connection_made(s, p, peer) ==
    LET s1 == [s EXCEPT !.protocols[p].transport = TRUE,
                        !.protocols[p].address = IF peer THEN "peer" ELSE "sock"]
    IN FireProtocolEvent(changed(s1, p), p, "connection_made", NoExc)

\* Protocol.connection_lost
connection_lost(s, p, exc) == FireProtocolEvent(s, p, "connection_lost", exc)

\* the defect of close() without its guard on _closed
CloseRuns_unguarded(s, p) == TRUE

\* whether close() does anything
CloseRuns(s, p) == s.protocols[p].closed = "None"

\* the defect of a close() that falls back to firing connection_lost only
\* when there is no transport, not when transport.close() raised
close_nofallback(s, p, canEof, eofRaises, closeRaises) ==
    IF CloseRuns(s, p)
    THEN LET tr == s.protocols[p].transport
             s1 == IF tr /\ canEof
                   THEN [s EXCEPT !.protocols[p].tcalls =
                            Append(@, IF eofRaises THEN "write_eof!" ELSE "write_eof")]
                   ELSE s
             s2 == IF tr
                   THEN [s1 EXCEPT !.protocols[p].tcalls =
                            Append(@, IF closeRaises THEN "close!" ELSE "close")]
                   ELSE s1
             closed == tr /\ ~closeRaises
             s3 == IF closed
                   THEN [s2 EXCEPT !.protocols[p].events["connection_lost"] =
                                       EventWaiter(@),
                                   !.protocols[p].closeTask = "waiting",
                                   !.protocols[p].ntasks = @ + 1]
                   ELSE IF tr THEN s2
                   ELSE FireProtocolEvent(s2, p, "connection_lost", NoExc)
         IN [s3 EXCEPT !.protocols[p].closed = IF closed THEN "task" ELSE "True"]
    ELSE s

\* Protocol.close; the transport says whether it can write eof and which of
\* its calls raise; tcalls lists the calls made on the transport, those that
\* raised marked "!"
close(s, p, canEof, eofRaises, closeRaises) ==
    IF CloseRuns(s, p)
    THEN LET tr == s.protocols[p].transport
             s1 == IF tr /\ canEof
                   THEN [s EXCEPT !.protocols[p].tcalls =
                            Append(@, IF eofRaises THEN "write_eof!" ELSE "write_eof")]
                   ELSE s
             s2 == IF tr
                   THEN [s1 EXCEPT !.protocols[p].tcalls =
                            Append(@, IF closeRaises THEN "close!" ELSE "close")]
                   ELSE s1
             closed == tr /\ ~closeRaises
             s3 == IF closed
                   THEN [s2 EXCEPT !.protocols[p].events["connection_lost"] =
                                       EventWaiter(@),
                                   !.protocols[p].closeTask = "waiting",
                                   !.protocols[p].ntasks = @ + 1]
                   ELSE FireProtocolEvent(s2, p, "connection_lost", NoExc)
         IN [s3 EXCEPT !.protocols[p].closed = IF closed THEN "task" ELSE "True"]
    ELSE s

\* whether transport.abort() is called and raises out of abort()
AbortRaises(s, p, abortRaises) == s.protocols[p].transport /\ abortRaises

\* Protocol.abort
abort(s, p, abortRaises) ==
    LET s1 == IF s.protocols[p].transport
              THEN [s EXCEPT !.protocols[p].tcalls =
                       Append(@, IF abortRaises THEN "abort!" ELSE "abort")]
              ELSE s
    IN IF AbortRaises(s, p, abortRaises)
       THEN s1
       ELSE FireProtocolEvent(s1, p, "connection_lost", NoExc)

\* the defect of an upgrade() that swaps the consumer at once
upgrade_immediate(s, p, factory) ==
    build_consumer_cb([s EXCEPT !.protocols[p].consumer_factory = factory], p)

\* Protocol.upgrade
upgrade(s, p, factory) ==
    LET s1 == [s EXCEPT !.protocols[p].consumer_factory = factory] IN
    IF s1.protocols[p].current_consumer = 0
    THEN current_consumer(s1, p)
    ELSE BindPostRequest(s1, s1.protocols[p].current_consumer, "_build_consumer")

----------------------------------------------------------------------------
(* LoopingCall (pulsar/async/eventloop.py) on its loop.  The loop is its   *)
(* clock now, its queue ready of callbacks to run next and the due time    *)
(* timer of the LoopingCall's handle in its timer heap (NoTimer: not in    *)
(* the heap).  calls lists the invocations of the callback: the loop time  *)
(* at, and the result: "value" (returned synchronously), "raise", or for   *)
(* a returned future "pending", then "ok" or "err" once it is resolved.    *)
(* heap counts the entries of the handle in the timer heap (the handle is  *)
(* one object: its entries share its due time), after the invocations made *)
(* once cancelled was set.                                                 *)

Intervals == {0, 1, 2}
Durations == {0, 1}
NoTimer == -1

\* LoopingCall.__init__
LoopingCall(interval) ==
    [interval |-> interval, cancelled |-> FALSE, now |-> 0,
     ready |-> IF interval > 0 THEN <<>> ELSE <<"call">>,
     timer |-> IF interval > 0 THEN 0 + interval ELSE NoTimer,
     heap |-> IF interval > 0 THEN 1 ELSE 0,
     fut |-> "none", calls |-> <<>>, logged |-> 0, escaped |-> FALSE,
     after |-> 0]

\* LoopingCall.cancel
cancel(s) == [s EXCEPT !.cancelled = TRUE]

\* the defect of a _continue that puts the handle on the ready queue
\* whatever the interval
continue_soon(s) ==
    IF ~s.cancelled THEN [s EXCEPT !.ready = Append(@, "call")] ELSE s

\* the defect of a _continue that does not look at the cancelled flag
continue_cancelled(s) ==
    IF s.interval > 0
    THEN [s EXCEPT !.timer = s.now + s.interval, !.heap = @ + 1]
    ELSE [s EXCEPT !.ready = Append(@, "call")]

\* the defect of a _continue that schedules the handle both ways
continue_both(s) ==
    IF ~s.cancelled
    THEN [s EXCEPT !.timer = s.now + s.interval, !.heap = @ + 1,
                   !.ready = Append(@, "call")]
    ELSE s

\* LoopingCall._continue
continue(s) ==
    IF ~s.cancelled
    THEN IF s.interval > 0
         THEN [s EXCEPT !.timer = s.now + s.interval, !.heap = @ + 1]
         ELSE [s EXCEPT !.ready = Append(@, "call")]
    ELSE s

\* the defect of a __call__ that rearms without waiting for the future
call_eager(s, result, d) ==
    LET s1 == [s EXCEPT !.calls = Append(@, [at |-> s.now, result |-> result]),
                        !.after = @ + (IF s.cancelled THEN 1 ELSE 0),
                        !.now = @ + d]
    IN CASE result = "raise" -> cancel([s1 EXCEPT !.logged = @ + 1])
         [] result = "pending" -> continue([s1 EXCEPT !.fut = "pending"])
         [] OTHER -> continue(s1)

\* LoopingCall.__call__: the callback runs for d ticks and raises, returns
\* a future or returns a value
call(s, result, d) ==
    LET s1 == [s EXCEPT !.calls = Append(@, [at |-> s.now, result |-> result]),
                        !.after = @ + (IF s.cancelled THEN 1 ELSE 0),
                        !.now = @ + d]
    IN CASE result = "raise" -> cancel([s1 EXCEPT !.logged = @ + 1])
         [] result = "pending" -> [s1 EXCEPT !.fut = "pending"]
         [] OTHER -> continue(s1)

\* the defect of a _might_continue without its try/except: the error of
\* the future leaves the callback
might_continue_unguarded(s) ==
    IF s.fut = "err" THEN [s EXCEPT !.escaped = TRUE] ELSE continue(s)

\* LoopingCall._might_continue
might_continue(s) ==
    IF s.fut = "err"
    THEN cancel([s EXCEPT !.logged = @ + 1])
    ELSE continue(s)

----------------------------------------------------------------------------
(* QueueTask (pulsar/async/eventloop.py): a task of the queue-fed loop A,  *)
(* run by thread A, awaiting futures of loop A or of loop B, run by thread *)
(* B, one after the other.  ready is the call_soon queue of each loop,     *)
(* running the callback each thread is in the middle of, futs the futures  *)
(* the task has awaited so far (the last one is the one it is waiting on), *)
(* steps the continuations of the task: the thread that ran it, the future *)
(* that resumed it and how often its wakeup was re-posted.  written lists, *)
(* thread by thread, what the thread has written of the task and of loop   *)
(* A: "task", or "ready" for A's call_soon queue.                          *)

Loops == {"A", "B"}
NoCallback == [fn |-> "none", fut |-> 0, inthread |-> FALSE]
Poke == [fn |-> "poke", fut |-> 0, inthread |-> FALSE]

NewFuture(loop) == [loop |-> loop, done |-> FALSE, reposts |-> 0]

\* a task of loop A that has run up to its first await, of a future of loop
NewQueueOn(loop) ==
    [ready |-> [l \in Loops |-> <<>>],
     running |-> [l \in Loops |-> NoCallback],
     task |-> [loop |-> "A", state |-> "waiting", steps |-> <<>>],
     futs |-> <<NewFuture(loop)>>,
     written |-> [l \in Loops |-> {}],
     poked |-> FALSE]

NewQueue == NewQueueOn("A")

\* loop.call_soon(callback) made by thread th
call_soon(q, loop, th, cb) ==
    [q EXCEPT !.ready[loop] = Append(@, cb),
              !.written[th] = IF loop = "A" THEN @ \cup {"ready"} ELSE @]

\* Task._wakeup run by thread th: the task takes its next step, up to its
\* next await (of a future of loop next) or to its end (next = "done")
resume(q, th, k, next) ==
    LET q1 == [q EXCEPT !.task.steps = Append(@, [thread |-> th, fut |-> k,
                                                 reposts |-> q.futs[k].reposts]),
                        !.written[th] = @ \cup {"task"}]
    IN IF next = "done"
       THEN [q1 EXCEPT !.task.state = "done"]
       ELSE [q1 EXCEPT !.futs = Append(@, NewFuture(next))]

\* the defect of a _wakeup that resumes the task wherever it is called
WakeupResumes_anywhere(inthread, futLoop, taskLoop) == TRUE

\* QueueTask._wakeup: whether the task is resumed in this call
WakeupResumes(inthread, futLoop, taskLoop) == inthread \/ futLoop = taskLoop

\* the defect of a re-post that is not tagged
RepostTag_untagged == FALSE

\* the inthread argument of the re-posted _wakeup
RepostTag == TRUE

\* QueueTask._wakeup(fut, inthread) called by thread th
wakeup(q, th, cb, next) ==
    IF WakeupResumes(cb.inthread, q.futs[cb.fut].loop, q.task.loop)
    THEN resume(q, th, cb.fut, next)
    ELSE call_soon([q EXCEPT !.futs[cb.fut].reposts = @ + 1], q.task.loop, th,
                   [fn |-> "_wakeup", fut |-> cb.fut, inthread |-> RepostTag])

----------------------------------------------------------------------------
(* TimeTracker (pulsar/utils/pylib/protocols.py): the clock service.       *)
(* registry is TimeTracker.timeHandlers (0: no entry for the loop), wall   *)
(* the clock time.time() reads.  A tracker is its loop, its current_time   *)
(* (NoTime: None), pending, the number of its tick timers pending on the   *)
(* loop, and reads, the number of clock reads that wrote current_time.     *)
(* producers lists the tracker each Producer built holds, returned the     *)
(* trackers register() returned for each loop.                             *)

NoTime == -1

\* timeHandlers = {} and no loop used yet
NoClock ==
    [wall |-> 0, registry |-> [l \in Loops |-> 0], trackers |-> <<>>,
     producers |-> <<>>, returned |-> [l \in Loops |-> {}],
     calls |-> 0, ticks |-> 0, raised |-> FALSE]

\* the defect of a _time that arms its timer only after a successful read
time_norearm(k, i, fails) ==
    IF fails THEN k
    ELSE [k EXCEPT !.trackers[i].current_time = k.wall,
                   !.trackers[i].reads = @ + 1,
                   !.trackers[i].pending = @ + 1]

\* TimeTracker._time of tracker i: the read of the clock may fail; the
\* timer is armed in the finally clause in both cases
time(k, i, fails) ==
    LET k1 == IF fails THEN k
              ELSE [k EXCEPT !.trackers[i].current_time = k.wall,
                             !.trackers[i].reads = @ + 1]
    IN [k1 EXCEPT !.trackers[i].pending = @ + 1]

\* TimeTracker.__init__
TimeTracker(k, loop, fails) ==
    LET k1 == [k EXCEPT !.trackers = Append(@,
                  [loop |-> loop, current_time |-> NoTime, pending |-> 0,
                   reads |-> 0])]
    IN time(k1, Len(k1.trackers), fails)

\* whether register(loop) raises: the exception of the clock read leaves
\* _time, __init__ and register
RegisterRaises(k, loop, fails) == k.registry[loop] = 0 /\ fails

\* the defect of a register() that builds a tracker on every call
register_always(k, loop, fails) ==
    LET k1 == TimeTracker(k, loop, fails) IN
    IF fails THEN k1
    ELSE [k1 EXCEPT !.registry[loop] = Len(k1.trackers),
                    !.returned[loop] = @ \cup {Len(k1.trackers)}]

\* TimeTracker.register: the entry of the loop is written after __init__
\* returned, so not when it raised
register(k, loop, fails) ==
    IF k.registry[loop] = 0
    THEN LET k1 == TimeTracker(k, loop, fails) IN
         IF fails THEN k1
         ELSE [k1 EXCEPT !.registry[loop] = Len(k1.trackers),
                         !.returned[loop] = @ \cup {Len(k1.trackers)}]
    ELSE [k EXCEPT !.returned[loop] = @ \cup {k.registry[loop]}]

\* Producer.__init__ on a loop: self._time = TimeTracker.register(loop)
NewProducer(k, loop, fails) ==
    LET k1 == register(k, loop, fails) IN
    IF RegisterRaises(k, loop, fails) THEN k1
    ELSE [k1 EXCEPT !.producers = Append(@, k1.registry[loop])]

----------------------------------------------------------------------------
(* Runner (pulsar/apps/test/runner.py).  tests are the test classes still  *)
(* pending, in the order they are run (the code keeps them reversed and    *)
(* pops from the end), each one its kind: "broken" (its tests cannot be    *)
(* loaded), "empty" (no test), "skipped" or "plain"; a class with tests    *)
(* has MaxTests of them.  concurrent is the set of classes running, at the *)
(* position of the task of _run_all_tests, class its class and test the    *)
(* number of the test to run next.  result counts what was recorded on the *)
(* test result, last lists the calls _run_test made for the test run last, *)
(* ret what the _run_safe call made last returned (FALSE: None), checking  *)
(* whether _check_done is on the loop, reposted whether it has put itself  *)
(* back there, halts the                                                   *)
(* exit codes handed to call_soon(self._exit, exit_code), halted the exit  *)
(* code of the HaltServer raised.                                          *)

ClassKinds == {"broken", "empty", "skipped", "plain"}
Outcomes == {"ok", "fail", "timeout"}
NoExit == -1

\* Runner.__init__ with the test classes tests
Runner(tests) ==
    [tests |-> tests, concurrent |-> {}, at |-> "start", class |-> 0,
     test |-> 0, started |-> 0,
     result |-> [failures |-> 0, errors |-> 0, successes |-> 0, skipped |-> 0],
     last |-> <<>>, ret |-> FALSE, checking |-> TRUE, reposted |-> FALSE,
     halts |-> <<>>, halted |-> NoExit]

\* no Runner at work
NoRunner == [Runner(<<>>) EXCEPT !.at = "finished", !.checking = FALSE]

\* a call made for the test being run: the method and how it ended
Note(r, m, out) == [r EXCEPT !.last = Append(@, [m |-> m, out |-> out])]

\* Runner.add_failure: an assertion failure is a failure, any other
\* exception, the timeout of wait_for included, an error
add_failure(r, out) ==
    IF out = "fail"
    THEN Note([r EXCEPT !.result.failures = @ + 1], "addFailure", "ok")
    ELSE Note([r EXCEPT !.result.errors = @ + 1], "addError", "ok")

\* Runner._run_safe: the method is called and ends as out; ret is what
\* _run_safe returns: the error on the path of the except clause, where
\* its return statement is, and None (FALSE) when nothing was raised
run_safe(r, method, out, error) ==
    LET r1 == Note(r, method, out) IN
    IF out # "ok"
    THEN [(IF ~error THEN add_failure(r1, out) ELSE r1) EXCEPT !.ret = TRUE]
    ELSE [r1 EXCEPT !.ret = FALSE]

\* Runner._run_test
run_test(r, skipped, setUp, test, tearDown) ==
    LET r0 == Note([r EXCEPT !.last = <<>>], "startTest", "ok")
        r1 == run_safe(r0, "setUp", setUp, FALSE)
        r2 == IF ~r1.ret THEN run_safe(r1, "test", test, FALSE) ELSE r1
        r3 == run_safe(r2, "tearDown", tearDown, r2.ret)
        r4 == IF ~r3.ret
              THEN Note([r3 EXCEPT !.result.successes = @ + 1], "addSuccess", "ok")
              ELSE r3
        r5 == IF skipped
              THEN Note([r0 EXCEPT !.result.skipped = @ + 1], "addSkip", "ok")
              ELSE r4
    IN [Note(r5, "stopTest", "ok") EXCEPT !.ret = FALSE]

\* Runner._run_all_tests from the head of its loop to the next class with
\* tests, which is started and added to the running set in the same run of
\* the task; classes that cannot be loaded or have no test are dropped
RECURSIVE run_all_tests(_)
run_all_tests(r) ==
    IF r.tests = <<>> THEN [r EXCEPT !.at = "finished", !.class = 0]
    ELSE LET r1 == [r EXCEPT !.tests = Tail(@)] IN
         IF Head(r.tests) \in {"broken", "empty"}
         THEN run_all_tests(r1)
         ELSE [r1 EXCEPT !.started = @ + 1,
                         !.class = r.started + 1,
                         !.concurrent = @ \cup {r.started + 1},
                         !.at = IF Head(r.tests) = "skipped" THEN "skip"
                                ELSE "setUpClass"]

\* Runner._run_testcls up to the running of the tests: a skipped class
\* skips its tests, a failing or timed out setUpClass fails them all
setUpClass(r, out) ==
    CASE r.at = "skip" ->
            [r EXCEPT !.result.skipped = @ + MaxTests, !.at = "tearDownClass"]
      [] out = "ok" -> [r EXCEPT !.at = "tests", !.test = 1]
      [] out = "fail" ->
            [r EXCEPT !.result.failures = @ + MaxTests, !.at = "tearDownClass"]
      [] OTHER ->
            [r EXCEPT !.result.errors = @ + MaxTests, !.at = "tearDownClass"]

\* Runner._run_testcls: the tests of the class, one _run_test after the
\* other
next_test(r) ==
    IF r.test < MaxTests THEN [r EXCEPT !.test = @ + 1]
    ELSE [r EXCEPT !.test = 0, !.at = "tearDownClass"]

\* Runner._run_testcls from tearDownClass on: whatever its outcome the
\* class leaves the running set, and _run_all_tests goes on
tearDownClass(r, out) ==
    run_all_tests([r EXCEPT !.concurrent = @ \ {r.class}])

\* the defect of a _check_done that looks at the pending classes only
Done_pending(r) == r.tests = <<>>

\* whether _check_done finds the run over
Done(r) == r.tests = <<>> /\ r.concurrent = {}

\* the exit code _check_done computes
ExitCode(r) ==
    IF r.result.errors > 0 \/ r.result.failures > 0 THEN 2 ELSE 0

\* Runner._check_done
check_done(r) ==
    IF ~Done(r)
    THEN [r EXCEPT !.reposted = TRUE]
    ELSE [r EXCEPT !.checking = FALSE, !.halts = Append(@, ExitCode(r))]

----------------------------------------------------------------------------
(* The state machine *)

Cur == [producer |-> producer, protocols |-> protocols, consumers |-> consumers]

Put(s) ==
    /\ producer' = s.producer
    /\ protocols' = s.protocols
    /\ consumers' = s.consumers

\* the record of a public call: the protocol and the consumer it was made on
\* (c: the protocol's current consumer before the call, where the call is on
\* a protocol), whether an exception escaped it, the steps it took (start),
\* and what the protocol's connection_lost event and closed flag were before it
Op(name, p, c, raised, info) ==
    [op |-> name, p |-> p, c |-> c, raised |-> raised, info |-> info,
     steps |-> <<>>,
     fired |-> IF p \in 1..Len(protocols)
               THEN protocols[p].events["connection_lost"].fired ELSE FALSE,
     closed |-> IF p \in 1..Len(protocols) THEN protocols[p].closed ELSE "None"]

Idle == [state |-> "idle", p |-> 0, data |-> <<>>, log |-> <<>>, base |-> 0]

Called(op) ==
    /\ lastOp' = op
    /\ nops' = nops + 1

CanCall == pc.state = "idle" /\ nops < MaxOps

Ps == 1..Len(protocols)
Cs == 1..Len(consumers)

\* a Producer that has created nothing yet
NoProtocols ==
    /\ producer = [sessions |-> 0, requests_processed |-> 0,
                   many |-> Instrumentation]
    /\ protocols = <<>>
    /\ consumers = <<>>
    /\ pc = Idle
    /\ lastOp = Op("init", 0, 0, FALSE, "")
    /\ nops = 0

Init ==
    /\ NoProtocols
    /\ looping = LoopingCall(0)
    /\ queue = NewQueue
    /\ clock = NoClock
    /\ runner = NoRunner

CreateProtocol ==
    /\ CanCall
    /\ Len(protocols) < MaxProtocols
    /\ Put(create_protocol(Cur))
    /\ Called(Op("create_protocol", Len(protocols) + 1, 0, FALSE, ""))
    /\ pc' = Idle
    /\ UNCHANGED others

ConnectionMade(p) ==
    /\ CanCall
    /\ \E peer \in BOOLEAN : Put(connection_made(Cur, p, peer))
    /\ Called(Op("connection_made", p, 0, FALSE, ""))
    /\ pc' = Idle
    /\ UNCHANGED others

\* the transport calls connection_lost(exc)
ConnectionLost(p, exc) ==
    /\ CanCall
    /\ Put(connection_lost(Cur, p, exc))
    /\ Called(Op("connection_lost", p, protocols[p].current_consumer, FALSE, exc))
    /\ pc' = Idle
    /\ UNCHANGED others

Close(p) ==
    /\ CanCall
    /\ \E canEof, eofRaises, closeRaises \in BOOLEAN :
          Put(close(Cur, p, canEof, eofRaises, closeRaises))
    /\ Called(Op("close", p, protocols[p].current_consumer, FALSE, ""))
    /\ pc' = Idle
    /\ UNCHANGED others

Abort(p) ==
    /\ CanCall
    /\ \E abortRaises \in BOOLEAN :
          /\ Put(abort(Cur, p, abortRaises))
          /\ Called(Op("abort", p, protocols[p].current_consumer,
                       AbortRaises(Cur, p, abortRaises), ""))
    /\ pc' = Idle
    /\ UNCHANGED others

\* the loop resumes the task of Protocol._close once its waiter is resolved
CloseTaskWake(p) ==
    /\ pc.state = "idle"
    /\ p \in 1..Len(protocols)
    /\ protocols[p].closeTask = "ready"
    /\ protocols' = [protocols EXCEPT ![p].closeTask = "done"]
    /\ UNCHANGED <<producer, consumers, pc, lastOp, nops, others>>

\* the bounded wait of Protocol._close expires: the wait is abandoned
CloseTaskTimeout(p) ==
    /\ pc.state = "idle"
    /\ p \in 1..Len(protocols)
    /\ protocols[p].closeTask = "waiting"
    /\ protocols' = [protocols EXCEPT ![p].closeTask = "timedout"]
    /\ UNCHANGED <<producer, consumers, pc, lastOp, nops, others>>

Unbound(ev, o) ==
    /\ \A i \in 1..Len(ev.handlers) : ev.handlers[i] # o
    /\ \A i \in 1..Len(ev.log) : ev.log[i][1] # o

\* observers are interchangeable: the one bound next to an event is the
\* first of Observers not yet bound to it
Fresh(ev, k) ==
    /\ Unbound(ev, Observers[k])
    /\ \A j \in 1..(k - 1) : ~Unbound(ev, Observers[j])

\* user code binds an observer to a one-time event of a protocol
BindProtocolObserver(p, name) ==
    /\ CanCall
    /\ \E k \in 1..Len(Observers) :
          /\ Fresh(protocols[p].events[name], k)
          /\ Put(BindProtocolEvent(Cur, p, name, Observers[k]))
          /\ Called([Op("bind", p, 0, FALSE, name)
                       EXCEPT !.fired = protocols[p].events[name].fired])
    /\ pc' = Idle
    /\ UNCHANGED others

\* user code binds an observer to a consumer's post_request
BindConsumerObserver(c) ==
    /\ CanCall
    /\ \E k \in 1..Len(Observers) :
          /\ Fresh(consumers[c].post_request, k)
          /\ Put(BindPostRequest(Cur, c, Observers[k]))
          /\ Called([Op("bind", consumers[c].connection, c, FALSE, "post_request")
                       EXCEPT !.fired = consumers[c].post_request.fired])
    /\ pc' = Idle
    /\ UNCHANGED others

\* user code builds a consumer for a protocol through the Producer
BuildConsumer(p, factory) ==
    /\ CanCall
    /\ Put(build_consumer(Cur, p, factory))
    /\ Called(Op("build_consumer", p, Len(consumers) + 1, FALSE, factory))
    /\ pc' = Idle
    /\ UNCHANGED others

\* user code asks the protocol for its consumer (client side)
CurrentConsumer(p) ==
    /\ CanCall
    /\ Put(current_consumer(Cur, p))
    /\ Called(Op("current_consumer", p, protocols[p].current_consumer, FALSE, ""))
    /\ pc' = Idle
    /\ UNCHANGED others

Upgrade(p, factory) ==
    /\ CanCall
    /\ Put(upgrade(Cur, p, factory))
    /\ Called(Op("upgrade", p, protocols[p].current_consumer, FALSE, factory))
    /\ pc' = Idle
    /\ UNCHANGED others

\* user code calls consumer.start(request); a pre_request observer may abort
\* and start_request may raise
Start(c, request) ==
    /\ CanCall
    /\ Put(start(Cur, c, request))
    /\ \E aborter \in 0..Len(consumers[c].many), raises \in BOOLEAN :
          Called([Op("start", consumers[c].connection, c,
                     StartRaises(aborter, raises),
                     IF aborter # 0 THEN "aborted" ELSE "started")
                    EXCEPT !.steps = start_steps(consumers[c].many, request, aborter)])
    /\ pc' = Idle
    /\ UNCHANGED others

\* a consumer completes its exchange, with or without error: it fires its
\* post_request
Finish(c, exc) ==
    /\ CanCall
    /\ Put(FirePostRequest(Cur, c, exc))
    /\ Called(Op("finish", consumers[c].connection, c, FALSE, exc))
    /\ pc' = Idle
    /\ UNCHANGED others

\* Protocol.data_received up to its loop
DataReceived(p, data) ==
    /\ CanCall
    /\ protocols' = [protocols EXCEPT ![p].data_received_count = @ + 1]
    /\ pc' = [state |-> "feed", p |-> p, data |-> data, log |-> <<>>,
              base |-> protocols[p].changes]
    /\ Called(Op("data_received", p, 0, FALSE, "running"))
    /\ UNCHANGED <<producer, consumers, others>>

\* what one feed_data(data) call of the protocol implementer may do: raise,
\* or consume n bytes and return the rest (n = 0: it returns all it was
\* given), completing the exchange (post_request) or not
FeedOutcomes(data) ==
    {[raises |-> TRUE, n |-> 0, finish |-> FALSE]} \cup
    {[raises |-> FALSE, n |-> n, finish |-> f] : n \in 0..Len(data), f \in BOOLEAN}

\* the passes of the loop in which feed_data consumed nothing
Stalls(log) == Cardinality({i \in 1..Len(log) : log[i].n = 0})

\* the defect of a loop that goes on one byte after what feed_data returned
LoopData_skips(toprocess) == Tail(toprocess)

\* the defect of a loop that feeds the data of this pass again
LoopData_again(toprocess) == pc.data

\* data = toprocess: the buffer of the next pass of the loop
LoopData(toprocess) == toprocess

\* the state in which feed_data is called in this pass of the loop
BeforeFeed ==
    LET s1 == current_consumer(Cur, pc.p)
        c == s1.protocols[pc.p].current_consumer
    IN IF s1.consumers[c].request = "None" THEN start(s1, c, "None") ELSE s1

FeedConsumer == current_consumer(Cur, pc.p).protocols[pc.p].current_consumer

FeedStarts == current_consumer(Cur, pc.p).consumers[FeedConsumer].request = "None"

EndData(info, raised, log) ==
    /\ pc' = [state |-> "idle", p |-> pc.p, data |-> <<>>, log |-> log,
              base |-> pc.base]
    /\ lastOp' = Op("data_received", pc.p, FeedConsumer, raised, info)
    /\ UNCHANGED nops

\* consumer.start() raises out of data_received (start_request raised)
FeedStartRaises ==
    /\ pc.state = "feed"
    /\ FeedStarts
    /\ Put(BeforeFeed)
    /\ EndData("start_request", TRUE, pc.log)
    /\ UNCHANGED others

\* consumer.feed_data(data) raises out of data_received
FeedRaises ==
    /\ pc.state = "feed"
    /\ Put(BeforeFeed)
    /\ EndData("feed_data", TRUE, pc.log)
    /\ UNCHANGED others

\* one pass of the loop of data_received with the outcome out of feed_data,
\* and the exit of the loop when no data is left
FeedPass(out) ==
    LET c == FeedConsumer
        s3 == IF out.finish THEN FirePostRequest(BeforeFeed, c, NoExc)
              ELSE BeforeFeed
        rest == SubSeq(pc.data, out.n + 1, Len(pc.data))
        log == Append(pc.log, [c |-> c, data |-> pc.data, n |-> out.n,
                               finish |-> out.finish, rest |-> rest,
                               cur |-> protocols[pc.p].current_consumer,
                               started |-> FeedStarts])
    IN IF rest = <<>>
       THEN /\ Put(changed(s3, pc.p))
            /\ EndData("done", FALSE, log)
       ELSE /\ Put(s3)
            /\ pc' = [pc EXCEPT !.data = LoopData(rest), !.log = log]
            /\ UNCHANGED <<lastOp, nops>>

\* a pass in which feed_data consumes at least one byte
FeedStep ==
    /\ pc.state = "feed"
    /\ UNCHANGED others
    /\ \E out \in FeedOutcomes(pc.data) :
          /\ ~out.raises
          /\ out.n > 0
          /\ FeedPass(out)

\* a pass in which feed_data returns all the data it was given
FeedStall ==
    /\ pc.state = "feed"
    /\ Stalls(pc.log) < MaxStalls
    /\ UNCHANGED others
    /\ \E out \in FeedOutcomes(pc.data) :
          /\ ~out.raises
          /\ out.n = 0
          /\ FeedPass(out)

Next ==
    \/ CreateProtocol
    \/ \E p \in Ps : ConnectionMade(p)
    \/ \E p \in Ps, exc \in Excs : ConnectionLost(p, exc)
    \/ \E p \in Ps : Close(p)
    \/ \E p \in Ps : Abort(p)
    \/ \E p \in Ps : CloseTaskWake(p)
    \/ \E p \in Ps : CloseTaskTimeout(p)
    \/ \E p \in Ps, n \in {"connection_made", "connection_lost"} :
          BindProtocolObserver(p, n)
    \/ \E c \in Cs : BindConsumerObserver(c)
    \/ \E p \in Ps, f \in Factories : BuildConsumer(p, f)
    \/ \E p \in Ps : CurrentConsumer(p)
    \/ \E p \in Ps, f \in Factories : Upgrade(p, f)
    \/ \E c \in Cs, r \in Requests : Start(c, r)
    \/ \E c \in Cs, exc \in Excs : Finish(c, exc)
    \/ \E p \in Ps, d \in Buffers : DataReceived(p, d)
    \/ FeedStartRaises
    \/ FeedRaises
    \/ FeedStep

Spec == Init /\ [][Next]_vars

\* data_received on one Protocol, with consumers whose feed_data may also
\* return all the data it was given; Spec leaves those passes out
OneProtocol ==
    create_protocol([producer |-> [sessions |-> 0, requests_processed |-> 0,
                                   many |-> Instrumentation],
                     protocols |-> <<>>,
                     consumers |-> <<>>])

\* one Protocol created, and MaxFeeds calls left in the budget of calls
FeedInit ==
    /\ producer = OneProtocol.producer
    /\ protocols = OneProtocol.protocols
    /\ consumers = OneProtocol.consumers
    /\ pc = Idle
    /\ lastOp = Op("create_protocol", 1, 0, FALSE, "")
    /\ nops = MaxOps - MaxFeeds
    /\ looping = LoopingCall(0)
    /\ queue = NewQueue
    /\ clock = NoClock
    /\ runner = NoRunner

FeedNext ==
    \/ \E p \in Ps, d \in Buffers : DataReceived(p, d)
    \/ FeedStartRaises
    \/ FeedRaises
    \/ FeedStep
    \/ FeedStall

FeedSpec == FeedInit /\ [][FeedNext]_vars

\* the loop keeps running its tasks and timers, and a call in progress goes on
FairSpec ==
    /\ Spec
    /\ \A p \in 1..MaxProtocols :
          WF_vars(CloseTaskWake(p)) /\ WF_vars(CloseTaskTimeout(p))
    /\ WF_vars(FeedStep)

----------------------------------------------------------------------------
(* LoopingCall: the loop's clock, its runs of the handle and of the done   *)
(* callback, the resolution of the future and the user's cancel()          *)

CallResults == {"value", "raise", "pending"}

\* the clock of the loop advances
Tick ==
    /\ looping.now < MaxTime
    /\ looping' = [looping EXCEPT !.now = @ + 1]
    /\ UNCHANGED <<protocolVars, queue, clock, runner>>

CanInvoke(d) ==
    /\ Len(looping.calls) < MaxCalls
    /\ looping.now + d <= MaxTime

\* the loop runs the timer handle, not before it is due
RunTimer ==
    /\ looping.heap > 0
    /\ looping.timer <= looping.now
    /\ \E r \in CallResults, d \in Durations :
          /\ CanInvoke(d)
          /\ looping' = call([looping EXCEPT
                                 !.heap = @ - 1,
                                 !.timer = IF looping.heap = 1 THEN NoTimer ELSE @],
                             r, d)
    /\ UNCHANGED <<protocolVars, queue, clock, runner>>

\* the loop runs the first callback of its ready queue
RunReady ==
    /\ looping.ready # <<>>
    /\ LET s == [looping EXCEPT !.ready = Tail(@)] IN
       IF Head(looping.ready) = "call"
       THEN \E r \in CallResults, d \in Durations :
               /\ CanInvoke(d)
               /\ looping' = call(s, r, d)
       ELSE looping' = might_continue(s)
    /\ UNCHANGED <<protocolVars, queue, clock, runner>>

\* the future the callback returned is resolved: its done callback, the
\* LoopingCall's _might_continue, is scheduled with call_soon
Resolve(outcome) ==
    /\ looping.fut = "pending"
    /\ looping' = [looping EXCEPT
                      !.fut = outcome,
                      !.calls[Len(looping.calls)].result = outcome,
                      !.ready = Append(@, "_might_continue")]
    /\ UNCHANGED <<protocolVars, queue, clock, runner>>

\* user code calls cancel()
Cancel ==
    /\ ~looping.cancelled
    /\ looping' = cancel(looping)
    /\ UNCHANGED <<protocolVars, queue, clock, runner>>

LoopInit ==
    /\ NoProtocols
    /\ looping \in {LoopingCall(i) : i \in Intervals}
    /\ queue = NewQueue
    /\ clock = NoClock
    /\ runner = NoRunner

LoopNext ==
    \/ Tick
    \/ RunTimer
    \/ RunReady
    \/ \E o \in {"ok", "err"} : Resolve(o)
    \/ Cancel

LoopSpec == LoopInit /\ [][LoopNext]_vars

----------------------------------------------------------------------------
(* QueueTask: the two threads run the callbacks of their loops, a callback *)
(* at a time, and the threads interleave at will.                          *)

Waited == Len(queue.futs)

\* the loop that owns the awaited future resolves it on its thread: the
\* done callbacks of the future (the task's _wakeup) go to that loop's queue
SetResult(th) ==
    /\ queue.task.state = "waiting"
    /\ ~queue.futs[Waited].done
    /\ queue.futs[Waited].loop = th
    /\ queue.running[th] = NoCallback
    /\ queue' = call_soon([queue EXCEPT !.futs[Waited].done = TRUE], th, th,
                          [fn |-> "_wakeup", fut |-> Waited, inthread |-> FALSE])
    /\ UNCHANGED <<protocolVars, looping, clock, runner>>

\* thread th takes the first callback of its loop's queue
Begin(th) ==
    /\ queue.running[th] = NoCallback
    /\ queue.ready[th] # <<>>
    /\ queue' = [queue EXCEPT !.running[th] = Head(queue.ready[th]),
                              !.ready[th] = Tail(@),
                              !.written[th] = IF th = "A" THEN @ \cup {"ready"}
                                              ELSE @]
    /\ UNCHANGED <<protocolVars, looping, clock, runner>>

\* thread th completes the _wakeup it is running
End(th) ==
    /\ queue.running[th].fn = "_wakeup"
    /\ \E next \in Loops \cup {"done"} :
          /\ next \in Loops => Waited < MaxAwaits
          /\ queue' = wakeup([queue EXCEPT !.running[th] = NoCallback], th,
                             queue.running[th], next)
    /\ UNCHANGED <<protocolVars, looping, clock, runner>>

\* a callback of loop A that works on the task (add_done_callback, cancel)
PokeBegin ==
    /\ queue.running["A"] = NoCallback
    /\ ~queue.poked
    /\ queue' = [queue EXCEPT !.running["A"] = Poke, !.poked = TRUE]
    /\ UNCHANGED <<protocolVars, looping, clock, runner>>

PokeEnd ==
    /\ queue.running["A"] = Poke
    /\ queue' = [queue EXCEPT !.running["A"] = NoCallback,
                              !.written["A"] = @ \cup {"task"}]
    /\ UNCHANGED <<protocolVars, looping, clock, runner>>

QueueInit ==
    /\ NoProtocols
    /\ looping = LoopingCall(0)
    /\ queue \in {NewQueueOn(l) : l \in Loops}
    /\ clock = NoClock
    /\ runner = NoRunner

QueueNext ==
    \/ \E th \in Loops : SetResult(th)
    \/ \E th \in Loops : Begin(th)
    \/ \E th \in Loops : End(th)
    \/ PokeBegin
    \/ PokeEnd

QueueSpec == QueueInit /\ [][QueueNext]_vars

----------------------------------------------------------------------------
(* The clock service: register() calls and Producer constructions on two   *)
(* loops, the ticks of the trackers' timers, and the clock advancing.      *)

\* user code calls TimeTracker.register(loop)
Register(loop) ==
    /\ clock.calls < MaxRegisters
    /\ \E fails \in BOOLEAN :
          clock' = [register(clock, loop, fails) EXCEPT
                       !.calls = @ + 1,
                       !.raised = RegisterRaises(clock, loop, fails)]
    /\ UNCHANGED <<protocolVars, looping, queue, runner>>

\* user code builds a Producer on the loop
BuildProducer(loop) ==
    /\ clock.calls < MaxRegisters
    /\ \E fails \in BOOLEAN :
          clock' = [NewProducer(clock, loop, fails) EXCEPT
                       !.calls = @ + 1,
                       !.raised = RegisterRaises(clock, loop, fails)]
    /\ UNCHANGED <<protocolVars, looping, queue, runner>>

\* the loop runs a pending tick timer of tracker i
ClockTick(i) ==
    /\ clock.ticks < MaxTicks
    /\ clock.trackers[i].pending > 0
    /\ \E fails \in BOOLEAN :
          clock' = [time([clock EXCEPT !.trackers[i].pending = @ - 1], i, fails)
                       EXCEPT !.ticks = @ + 1, !.raised = FALSE]
    /\ UNCHANGED <<protocolVars, looping, queue, runner>>

\* time passes
Advance ==
    /\ clock.wall < MaxWall
    /\ clock' = [clock EXCEPT !.wall = @ + 1]
    /\ UNCHANGED <<protocolVars, looping, queue, runner>>

ClockInit ==
    /\ NoProtocols
    /\ looping = LoopingCall(0)
    /\ queue = NewQueue
    /\ clock = NoClock
    /\ runner = NoRunner

ClockNext ==
    \/ \E l \in Loops : Register(l)
    \/ \E l \in Loops : BuildProducer(l)
    \/ \E i \in 1..Len(clock.trackers) : ClockTick(i)
    \/ Advance

ClockSpec == ClockInit /\ [][ClockNext]_vars

----------------------------------------------------------------------------
(* The test Runner on its loop: the task of _run_all_tests, resumed by the *)
(* loop each time what it waits for is over, and the callbacks _check_done *)
(* and _exit.                                                              *)

\* the first run of the task
StartTask ==
    /\ runner.at = "start"
    /\ runner' = run_all_tests(runner)
    /\ UNCHANGED <<protocolVars, looping, queue, clock>>

\* setUpClass completes, fails or times out (or the class is skipped)
SetUpClass ==
    /\ runner.at \in {"skip", "setUpClass"}
    /\ \E out \in Outcomes : runner' = setUpClass(runner, out)
    /\ UNCHANGED <<protocolVars, looping, queue, clock>>

\* one test of the class is run
RunTest ==
    /\ runner.at = "tests"
    /\ \E skipped \in BOOLEAN, setUp, test, tearDown \in Outcomes :
          runner' = next_test(run_test(runner, skipped, setUp, test, tearDown))
    /\ UNCHANGED <<protocolVars, looping, queue, clock>>

\* tearDownClass completes, fails or times out
TearDownClass ==
    /\ runner.at = "tearDownClass"
    /\ \E out \in Outcomes : runner' = tearDownClass(runner, out)
    /\ UNCHANGED <<protocolVars, looping, queue, clock>>

\* the loop runs _check_done; __init__ put the first run of the task on the
\* loop before it
CheckDone ==
    /\ runner.checking
    /\ runner.at # "start"
    /\ runner' = check_done(runner)
    /\ UNCHANGED <<protocolVars, looping, queue, clock>>

\* the loop runs _exit(exit_code), which raises HaltServer
Exit ==
    /\ runner.halts # <<>>
    /\ runner.halted = NoExit
    /\ runner' = [runner EXCEPT !.halted = runner.halts[1]]
    /\ UNCHANGED <<protocolVars, looping, queue, clock>>

RunnerInit ==
    /\ NoProtocols
    /\ looping = LoopingCall(0)
    /\ queue = NewQueue
    /\ clock = NoClock
    /\ \E n \in 0..MaxClasses :
          runner \in {Runner(tests) : tests \in [1..n -> ClassKinds]}

RunnerNext ==
    \/ StartTask
    \/ SetUpClass
    \/ RunTest
    \/ TearDownClass
    \/ CheckDone
    \/ Exit

RunnerSpec == RunnerInit /\ [][RunnerNext]_vars

\* the loop runs every callback and resumes every task that is ready
RunnerFairSpec ==
    /\ RunnerSpec
    /\ WF_vars(StartTask) /\ WF_vars(SetUpClass) /\ WF_vars(RunTest)
    /\ WF_vars(TearDownClass) /\ WF_vars(CheckDone) /\ WF_vars(Exit)

----------------------------------------------------------------------------
(* Vocabulary of the properties *)

Lost(p) == protocols[p].events["connection_lost"]

\* how many times observer h of an event was invoked
Runs(ev, h) == Cardinality({i \in 1..Len(ev.log) : ev.log[i][1] = h})

Invoked(ev) == {ev.log[i][1] : i \in 1..Len(ev.log)}

Bound(ev) == {ev.handlers[i] : i \in 1..Len(ev.handlers)}

\* the last public call was a call of one of these methods on protocol p
LastCall(p, names) == lastOp.p = p /\ lastOp.op \in names

----------------------------------------------------------------------------
(* C1: over any sequence of close(), abort() and connection_lost(exc) calls *)
(* on a Protocol, the observers of its connection_lost event (the internal *)
(* _connection_lost among them) run once, for the first call that fires    *)
(* the event, and no later call runs them again: every observer has at     *)
(* most one invocation, the event has fired as soon as connection_lost(),  *)
(* a returning abort() or the fallback of close() was made, and once it    *)
(* has fired every observer bound before has exactly one invocation.       *)
C1_ConnectionLostOnce ==
    \A p \in Ps :
        /\ \A h \in Invoked(Lost(p)) \cup Bound(Lost(p)) : Runs(Lost(p), h) <= 1
        /\ Lost(p).fired => \A h \in Bound(Lost(p)) : Runs(Lost(p), h) = 1
        /\ ~Lost(p).fired => Lost(p).log = <<>>
        /\ "_connection_lost" \in Bound(Lost(p))
        /\ LastCall(p, {"connection_lost"}) => Lost(p).fired
        /\ LastCall(p, {"abort"}) /\ ~lastOp.raised => Lost(p).fired
        /\ protocols[p].closed = "True" => Lost(p).fired

\* connection_lost(E1) arrives after the event has fired without error: the
\* observers are not run again
C1_Witness ==
    \E p \in Ps :
        /\ LastCall(p, {"connection_lost"})
        /\ lastOp.info = "E1"
        /\ lastOp.fired
        /\ Lost(p).payload = NoExc
        /\ Runs(Lost(p), "_connection_lost") = 1

----------------------------------------------------------------------------
(* C2: after close() on a connected Protocol whose transport.close()       *)
(* returned normally, the wait for the transport's confirmation is bounded *)
(* by the close timeout: when the bounded wait has expired and the         *)
(* transport has not called connection_lost back, connection_lost has      *)
(* fired all the same, with no error.                                      *)
C2_CloseWaitBounded ==
    \A p \in Ps :
        protocols[p].closeTask = "timedout" =>
            Lost(p).fired /\ Lost(p).payload = NoExc

----------------------------------------------------------------------------
(* C3: close() is idempotent: a close() call on a Protocol whose _closed   *)
(* is already set, by whichever path of the first close(), changes nothing *)
(* of the producer, the protocols (no transport call, no new wait task, no *)
(* firing of connection_lost) or the consumers, and raises nothing.        *)
C3_CloseIdempotent ==
    [][\A p \in Ps :
          (/\ nops' = nops + 1
           /\ lastOp'.op = "close"
           /\ lastOp'.p = p
           /\ protocols[p].closed # "None")
          => (/\ protocols' = protocols
              /\ consumers' = consumers
              /\ producer' = producer
              /\ ~lastOp'.raised)]_vars

\* a second close() after a first one that took the graceful path
C3_Witness ==
    \E p \in Ps :
        /\ LastCall(p, {"close"})
        /\ lastOp.closed = "task"
        /\ protocols[p].ntasks = 1
        /\ protocols[p].tcalls = <<"write_eof", "close">>

----------------------------------------------------------------------------
----------------------------------------------------------------------------
(* C5: an exception of transport.abort() does not escape Protocol.abort(), *)
(* and connection_lost has fired when abort() is over.                     *)
C5_AbortContained ==
    \A p \in Ps :
        LastCall(p, {"abort"}) => ~lastOp.raised /\ Lost(p).fired

----------------------------------------------------------------------------
(* C6: when a call fires the connection_lost event of a Protocol that      *)
(* holds a current consumer, started or not, that consumer's post_request  *)
(* has fired with the same error and the consumer is detached.             *)
C6_LostTerminatesConsumer ==
    \A p \in Ps :
        (/\ LastCall(p, {"connection_lost", "abort", "close"})
         /\ ~lastOp.fired
         /\ Lost(p).fired
         /\ lastOp.c # 0)
        => (/\ consumers[lastOp.c].post_request.fired
            /\ consumers[lastOp.c].post_request.payload = Lost(p).payload
            /\ protocols[p].current_consumer # lastOp.c)

----------------------------------------------------------------------------
(* C7: pipelining.  pc.log lists the feed_data calls of the data_received  *)
(* call made last: the consumer fed, the buffer it was given, the number   *)
(* of bytes it consumed, whether it fired its post_request, the remainder  *)
(* it returned, the Protocol's consumer slot before the pass and whether   *)
(* the pass started the consumer.                                          *)

FeedDone(p) ==
    /\ pc.state = "idle"
    /\ LastCall(p, {"data_received"})
    /\ lastOp.info = "done"

OneByteEach == \A i \in 1..Len(pc.log) : pc.log[i].n = 1

\* k passes, k distinct consumers, the i-th given the buffer from its i-th byte
InOrder ==
    /\ Len(pc.log) = Len(pc.log[1].data)
    /\ \A i \in 1..Len(pc.log) :
          pc.log[i].data = SubSeq(pc.log[1].data, i, Len(pc.log[1].data))
    /\ \A i, j \in 1..Len(pc.log) : i # j => pc.log[i].c # pc.log[j].c

(* C7 as claimed: a data_received call of k bytes whose feed_data calls    *)
(* consume one byte each involves k distinct consumers, the i-th one       *)
(* processing the i-th byte.                                               *)
C7_OneConsumerPerByte ==
    \A p \in Ps : FeedDone(p) /\ OneByteEach => InOrder

(* C7 amended: the same, provided every consumer but the last fires its    *)
(* post_request in the feed_data call that consumes its byte.              *)
C7_Pipelining ==
    \A p \in Ps :
        (/\ FeedDone(p)
         /\ OneByteEach
         /\ \A i \in 1..(Len(pc.log) - 1) : pc.log[i].finish)
        => InOrder

\* b"AB": two consumers, one byte each, the first completing its exchange
C7_Witness ==
    \E p \in Ps :
        /\ FeedDone(p)
        /\ OneByteEach
        /\ Len(pc.log) = 2
        /\ pc.log[1].finish
        /\ pc.log[1].data = <<"A", "B">>
        /\ pc.log[2].data = <<"B">>
        /\ pc.log[1].c # pc.log[2].c

----------------------------------------------------------------------------
(* C8: the counters Protocol.processed and Producer.requests_processed are *)
(* raised at most once for any one consumer (starts counts the times       *)
(* start() raised them for the consumer).                                  *)
C8_StartOnce == \A c \in Cs : consumers[c].starts <= 1

----------------------------------------------------------------------------
(* C9: an exception of start_request() or feed_data() inside data_received *)
(* does not escape data_received: it is the payload of the post_request of *)
(* the consumer, which has fired, and the consumer is detached.            *)
C9_ConsumerFailureContained ==
    \A p \in Ps :
        (LastCall(p, {"data_received"}) /\ lastOp.info \in {"start_request", "feed_data"})
        => (/\ ~lastOp.raised
            /\ consumers[lastOp.c].post_request.fired
            /\ consumers[lastOp.c].post_request.payload # NoExc
            /\ protocols[p].current_consumer # lastOp.c)

----------------------------------------------------------------------------
(* C10: for every one-time event (connection_made and connection_lost of a *)
(* Protocol, post_request of a ProtocolConsumer): before it fires nothing  *)
(* is invoked; once it has fired, however often fire is called, the        *)
(* invocations are one per observer bound before the firing, in the order  *)
(* of binding, followed by one per observer bound after it, made at bind   *)
(* time; every invocation carries the payload of the one firing; and an    *)
(* observer bound before the firing is not invoked by its binding.         *)

OneTimeEvent ==
    {protocols[p].events[n] : p \in Ps, n \in {"connection_made", "connection_lost"}}
        \cup {consumers[c].post_request : c \in Cs}

\* the event of the bind call made last
BoundEvent ==
    IF lastOp.info = "post_request"
    THEN consumers[lastOp.c].post_request
    ELSE protocols[lastOp.p].events[lastOp.info]

IsObserver(h) == \E k \in 1..Len(Observers) : Observers[k] = h

C10_OneShot ==
    /\ \A ev \in OneTimeEvent :
          /\ ~ev.fired => ev.log = <<>> /\ ev.late = 0
          /\ ev.fired =>
                /\ Len(ev.log) = Len(ev.handlers) + ev.late
                /\ \A i \in 1..Len(ev.handlers) : ev.log[i][1] = ev.handlers[i]
                /\ \A h \in Invoked(ev) : IsObserver(h) => Runs(ev, h) = 1
          /\ \A i \in 1..Len(ev.log) : ev.log[i][2] = ev.payload
    /\ lastOp.op = "bind" /\ lastOp.fired =>
          /\ BoundEvent.fired
          /\ BoundEvent.log # <<>>
          /\ IsObserver(BoundEvent.log[Len(BoundEvent.log)][1])
          /\ BoundEvent.log[Len(BoundEvent.log)][2] = BoundEvent.payload
          /\ BoundEvent.log[Len(BoundEvent.log)][1] \notin Bound(BoundEvent)
    /\ lastOp.op = "bind" /\ ~lastOp.fired =>
          /\ ~BoundEvent.fired
          /\ BoundEvent.handlers # <<>>
          /\ IsObserver(BoundEvent.handlers[Len(BoundEvent.handlers)])

\* an observer bound before an event fired with an error, another one after
C10_Witness ==
    /\ lastOp.op = "bind"
    /\ lastOp.fired
    /\ BoundEvent.payload = "E1"
    /\ "obs1" \in Bound(BoundEvent)
    /\ BoundEvent.log[Len(BoundEvent.log)] = <<"obs2", "E1">>
    /\ Runs(BoundEvent, "obs1") = 1

----------------------------------------------------------------------------
(* C11: Producer.sessions never decreases; a create_protocol() call raises *)
(* it by exactly one and returns one new Protocol whose session is the     *)
(* counter right after the increment, different from the session of every  *)
(* Protocol the Producer created before.                                   *)
C11_Sessions ==
    [][/\ producer'.sessions >= producer.sessions
       /\ (nops' = nops + 1 /\ lastOp'.op = "create_protocol") =>
             LET new == Len(protocols') IN
             /\ producer'.sessions = producer.sessions + 1
             /\ new = Len(protocols) + 1
             /\ lastOp'.p = new
             /\ protocols'[new].session = producer'.sessions
             /\ \A q \in 1..Len(protocols) :
                   /\ protocols'[q].session = protocols[q].session
                   /\ protocols'[q].session # protocols'[new].session]_vars

\* a second Protocol was created: sessions 1 and 2
C11_Witness ==
    /\ lastOp.op = "create_protocol"
    /\ lastOp.p = 2
    /\ producer.sessions = 2
    /\ protocols[1].session = 1
    /\ protocols[2].session = 2

----------------------------------------------------------------------------
(* C12: every Protocol and every ProtocolConsumer in existence, whichever  *)
(* call built it (create_protocol, build_consumer, current_consumer called *)
(* by user code, by data_received, by upgrade or by the deferred swap of   *)
(* upgrade), carries the observers of the Producer's repeating events, and *)
(* carries them from the call that built it on.                            *)
C12_InstrumentationTotal ==
    /\ \A p \in Ps : protocols[p].many = producer.many
    /\ \A c \in Cs : consumers[c].many = producer.many
    /\ producer.many # <<>>

\* the consumer built lazily by data_received on first inbound data, next to
\* one built by build_consumer
C12_Witness ==
    \E p \in Ps :
        /\ FeedDone(p)
        /\ Len(pc.log) = 1
        /\ pc.log[1].c = 2
        /\ consumers[2].starts = 1
        /\ consumers[2].many = Instrumentation
        /\ protocols[p].current_consumer = 2
        /\ consumers[1].connection = p

----------------------------------------------------------------------------
(* C13: once an invocation of a LoopingCall's callback raised, or the      *)
(* future it returned was resolved with an error, no further invocation    *)
(* follows and the handle is armed neither on the ready queue nor in the   *)
(* timer heap; once the failure has been handled (at once for a raise, in  *)
(* _might_continue for a future) the looping call is cancelled and the     *)
(* error logged once; and no error leaves a callback into the loop.        *)

\* the handle of the LoopingCall is on the ready queue or in the timer heap
Armed ==
    \/ looping.timer # NoTimer
    \/ \E i \in 1..Len(looping.ready) : looping.ready[i] = "call"

DoneCallbackQueued ==
    \E i \in 1..Len(looping.ready) : looping.ready[i] = "_might_continue"

C13_FailureBreaksChain ==
    /\ ~looping.escaped
    /\ \A i \in 1..Len(looping.calls) :
          looping.calls[i].result \in {"raise", "err"} =>
             /\ i = Len(looping.calls)
             /\ ~Armed
             /\ (looping.calls[i].result = "raise" \/ ~DoneCallbackQueued) =>
                   /\ looping.cancelled
                   /\ looping.logged = 1
    /\ looping.logged <= 1
    /\ looping.logged = 1 =>
          /\ looping.calls # <<>>
          /\ looping.calls[Len(looping.calls)].result \in {"raise", "err"}

\* the future of the second invocation failed and _might_continue has run
C13_Witness ==
    /\ Len(looping.calls) = 2
    /\ looping.calls[1].result = "value"
    /\ looping.calls[2].result = "err"
    /\ looping.ready = <<>>
    /\ looping.cancelled
    /\ looping.logged = 1

----------------------------------------------------------------------------
(* C14: while the future returned by an invocation of the callback is      *)
(* pending, and after it failed, the handle is not armed; an invocation    *)
(* that follows one which returned a future follows the successful         *)
(* resolution of that future and the run of its done callback.             *)
C14_WaitsForFuture ==
    /\ looping.fut \in {"pending", "err"} => ~Armed
    /\ (looping.fut = "ok" /\ DoneCallbackQueued) => ~Armed
    /\ \A i \in 1..Len(looping.calls) :
          /\ looping.calls[i].result = "pending" =>
                i = Len(looping.calls) /\ looping.fut = "pending"
          /\ i < Len(looping.calls) => looping.calls[i].result \in {"value", "ok"}

\* the first invocation returned a future, resolved later; the second one
\* came after that
C14_Witness ==
    /\ Len(looping.calls) = 2
    /\ looping.calls[1].result = "ok"
    /\ looping.calls[2].result = "pending"
    /\ looping.interval = 1
    /\ looping.calls[2].at >= looping.calls[1].at + 1

----------------------------------------------------------------------------
(* C15: with an interval I > 0 the first invocation is not before loop     *)
(* time I (the LoopingCall is built at loop time 0), and an invocation     *)
(* that follows one which returned synchronously is not before I after it. *)
C15_IntervalApart ==
    looping.interval > 0 =>
        /\ looping.calls # <<>> => looping.calls[1].at >= looping.interval
        /\ \A i \in 1..(Len(looping.calls) - 1) :
              looping.calls[i].result = "value" =>
                 looping.calls[i + 1].at >= looping.calls[i].at + looping.interval

\* interval 2: invocations at loop times 2 and 4
C15_Witness ==
    /\ looping.interval = 2
    /\ Len(looping.calls) = 2
    /\ looping.calls[1] = [at |-> 2, result |-> "value"]
    /\ looping.calls[2].at = 4

----------------------------------------------------------------------------
(* C16: every continuation of the task is run by thread A, the thread of   *)
(* the loop that owns it; the wakeup for a future of loop B was re-posted  *)
(* to A exactly once before the continuation it causes, the one for a      *)
(* future of loop A never; a tagged wakeup is only ever on A's queue; and  *)
(* the continuations come in the order of the task's awaits.               *)

Callbacks(l) ==
    {queue.ready[l][i] : i \in 1..Len(queue.ready[l])} \cup {queue.running[l]}

C16_ResumesOnOwnLoop ==
    /\ \A i \in 1..Len(queue.task.steps) :
          LET st == queue.task.steps[i] IN
          /\ st.thread = queue.task.loop
          /\ st.fut = i
          /\ st.reposts = IF queue.futs[i].loop = "B" THEN 1 ELSE 0
    /\ \A k \in 1..Len(queue.futs) : queue.futs[k].reposts <= 1
    /\ \A cb \in Callbacks("B") : ~cb.inthread
    /\ \A cb \in Callbacks("A") :
          cb.inthread => queue.futs[cb.fut].loop = "B" /\ queue.futs[cb.fut].reposts = 1
    /\ Len(queue.task.steps) \in {Len(queue.futs) - 1, Len(queue.futs)}
    /\ Len(queue.task.steps) = Len(queue.futs) => queue.task.state = "done"

\* the task awaited a future of loop B, then one of loop A, then ended
C16_Witness ==
    /\ queue.task.state = "done"
    /\ Len(queue.task.steps) = 2
    /\ queue.futs[1].loop = "B"
    /\ queue.futs[2].loop = "A"
    /\ queue.task.steps[1] = [thread |-> "A", fut |-> 1, reposts |-> 1]
    /\ queue.task.steps[2] = [thread |-> "A", fut |-> 2, reposts |-> 0]

----------------------------------------------------------------------------
(* C17: thread B writes nothing of the task or of loop A but A's call_soon *)
(* queue, and at no time are both threads in the middle of callbacks that  *)
(* write the task.                                                         *)

\* thread th is in the middle of a callback that writes the task
WritesTask(th) ==
    LET cb == queue.running[th] IN
    \/ cb.fn = "poke"
    \/ /\ cb.fn = "_wakeup"
       /\ WakeupResumes(cb.inthread, queue.futs[cb.fut].loop, queue.task.loop)

----------------------------------------------------------------------------
(* C18: when the post_request of a consumer fires while another consumer   *)
(* is the one attached to its Protocol, the slot is left as it is; and     *)
(* when it fires on the attached consumer after upgrade() bound the        *)
(* deferred swap, the replacement the swap attached is still attached when *)
(* the firing is over, whether the cleanup observer ran before or after    *)
(* the swap.                                                               *)

\* the step fires the post_request of consumer c
FiresPostRequest(c) ==
    /\ ~consumers[c].post_request.fired
    /\ consumers'[c].post_request.fired

Slot(c) == protocols[consumers[c].connection].current_consumer

C18_DetachOnlyIfAttached ==
    [][\A c \in Cs :
          FiresPostRequest(c) =>
             LET p == consumers[c].connection IN
             /\ Slot(c) # c => protocols'[p].current_consumer = Slot(c)
             /\ (Slot(c) = c /\ "_build_consumer" \in Bound(consumers[c].post_request))
                   => protocols'[p].current_consumer \notin {0, c}]_vars

\* upgrade() was called before the consumer was started: the swap runs
\* first, the cleanup of the replaced consumer second
C18_Witness ==
    \E p \in Ps :
        /\ FeedDone(p)
        /\ Len(pc.log) = 1
        /\ pc.log[1].finish
        /\ pc.log[1].c = 1
        /\ consumers[1].post_request.handlers = <<"_build_consumer", "_finished">>
        /\ protocols[p].current_consumer = 2

----------------------------------------------------------------------------
(* C19: while a consumer C that upgrade(F) found active has not fired its  *)
(* post_request, C stays the current consumer and is the one inbound data  *)
(* is fed to; the step that fires it leaves as current consumer a consumer *)
(* that did not exist before, built by the factory of the last upgrade(),  *)
(* neither started nor fired; an upgrade(F) that finds no consumer builds  *)
(* one with F in the call, and one that finds an unfired consumer leaves   *)
(* it attached.                                                            *)

Upgraded(c) ==
    /\ Slot(c) = c
    /\ "_build_consumer" \in Bound(consumers[c].post_request)

----------------------------------------------------------------------------
(* C20: in a data_received(data) call the first feed_data call is given    *)
(* the whole buffer and every later one the remainder the call before it   *)
(* returned; each call goes to the consumer that is current when it is     *)
(* made (the one in the slot, or a new one when the slot is empty), which  *)
(* has a request by then, started in the pass if it had none; and the call *)
(* ends normally only after a feed_data call that returned nothing.        *)
C20_NoByteDropped ==
    /\ pc.state = "feed" =>
          /\ pc.data # <<>>
          /\ pc.log # <<>> => pc.data = pc.log[Len(pc.log)].rest
    /\ \A i \in 1..Len(pc.log) :
          LET e == pc.log[i] IN
          /\ e.rest = SubSeq(e.data, e.n + 1, Len(e.data))
          /\ i > 1 => e.data = pc.log[i - 1].rest
          /\ i < Len(pc.log) => e.rest # <<>>
          /\ e.c \in Cs
          /\ e.cur # 0 => e.c = e.cur
          /\ consumers[e.c].request # "None"
          /\ consumers[e.c].starts >= 1
          /\ (lastOp.op = "data_received" /\ e.started)
                => consumers[e.c].request = "dummy"
    /\ pc.state = "idle" /\ pc.log # <<>> =>
          /\ pc.log[1].data \in Buffers
          /\ lastOp.info = "done" => pc.log[Len(pc.log)].rest = <<>>
    /\ lastOp.op = "data_received" /\ lastOp.info = "done" => pc.log # <<>>

\* b"AB" fed in two passes: the whole buffer, then the remainder b"B"
C20_Witness ==
    \E p \in Ps :
        /\ FeedDone(p)
        /\ Len(pc.log) = 2
        /\ pc.log[1].data = <<"A", "B">>
        /\ pc.log[1].rest = <<"B">>
        /\ pc.log[2].data = <<"B">>
        /\ pc.log[2].rest = <<>>
        /\ pc.log[1].c = pc.log[2].c

----------------------------------------------------------------------------
(* C21: in start(), the request object is resolved (the argument, else     *)
(* create_request()) before pre_request fires; if an observer of           *)
(* pre_request raises the abort signal, start_request() is not called, the *)
(* abort is logged and start() returns normally; if none aborts,           *)
(* start_request() is called exactly once, after every observer has run.   *)

\* the positions of a step among the steps of the last call
StepsAt(step) == {i \in 1..Len(lastOp.steps) : lastOp.steps[i] = step}

----------------------------------------------------------------------------
(* C23: all the register(loop) calls that returned, and so all the         *)
(* Producers built on the loop, got the same TimeTracker, the one in the   *)
(* registry; two loops have two trackers; a registered tracker has exactly *)
(* one tick timer pending on its loop, also after a tick whose clock read  *)
(* failed; and current_time is set only by a clock read of _time.          *)

\* the trackers built for a loop
TrackersOf(l) == {i \in 1..Len(clock.trackers) : clock.trackers[i].loop = l}

TwoChains ==
    \E l \in Loops :
        /\ Cardinality(TrackersOf(l)) = 2
        /\ \A i \in TrackersOf(l) : clock.trackers[i].pending = 1

----------------------------------------------------------------------------
(* C24: the calls _run_test makes for a test start with startTest and end  *)
(* with stopTest; for a test that is not skipped, setUp comes first, the   *)
(* test function is run exactly when setUp did not fail, tearDown is run   *)
(* once, after them; at most one failure or error is recorded, right after *)
(* the first method that failed or timed out; and a success is recorded    *)
(* only if no method failed.                                               *)

\* the positions of the calls of m in the test run last
CallsOf(m) == {i \in 1..Len(runner.last) : runner.last[i].m = m}

\* the positions of the methods that failed or timed out
FailedCalls == {i \in 1..Len(runner.last) : runner.last[i].out # "ok"}

C24_RunTestRecords ==
    runner.last # <<>> =>
        /\ runner.last[1].m = "startTest"
        /\ runner.last[Len(runner.last)].m = "stopTest"
        /\ Cardinality(CallsOf("stopTest")) = 1
        /\ CallsOf("addSkip") = {} =>
              /\ runner.last[2].m = "setUp"
              /\ CallsOf("test") # {} <=> runner.last[2].out = "ok"
              /\ Cardinality(CallsOf("tearDown")) = 1
              /\ \A i \in CallsOf("setUp") \cup CallsOf("test"),
                    j \in CallsOf("tearDown") : i < j
              /\ Cardinality(CallsOf("addFailure") \cup CallsOf("addError")) <= 1
              /\ \A i \in FailedCalls :
                    (\A j \in FailedCalls : i <= j) =>
                       runner.last[i + 1].m \in {"addFailure", "addError"}
              /\ CallsOf("addSuccess") # {} => FailedCalls = {}

----------------------------------------------------------------------------
(* C25: the halt is scheduled at most once, and only when no class is      *)
(* pending or running and the task of _run_all_tests is over, with exit    *)
(* code 2 if the result holds errors or failures and 0 otherwise; until    *)
(* then _check_done stays on the loop; a class is in the running set       *)
(* exactly while it runs, whatever its setUpClass and tearDownClass did;   *)
(* and, the loop running what is ready, the halt is eventually reached.    *)

RunStages == {"skip", "setUpClass", "tests", "tearDownClass"}

HaltOnlyWhenDone ==
    /\ Len(runner.halts) <= 1
    /\ runner.halts # <<>> =>
          /\ runner.tests = <<>>
          /\ runner.concurrent = {}
          /\ runner.at = "finished"
          /\ runner.halts[1] = IF runner.result.errors + runner.result.failures > 0
                                THEN 2 ELSE 0
    /\ runner.checking <=> runner.halts = <<>>
    /\ runner.halted # NoExit => runner.halts = <<runner.halted>>
    /\ runner.at \in RunStages <=> runner.concurrent # {}
    /\ runner.concurrent \subseteq {runner.class}

C25_HaltsWhenAllDone ==
    /\ []HaltOnlyWhenDone
    /\ <>(runner.halted # NoExit)

\* two classes run, the setUpClass of one failed or timed out, _check_done
\* put itself back on the loop, and the loop was halted with exit code 2
C25_Witness ==
    /\ runner.started = 2
    /\ runner.result.errors + runner.result.failures = MaxTests
    /\ runner.result.successes = MaxTests
    /\ runner.reposted
    /\ runner.halted = 2

----------------------------------------------------------------------------
(* C26: right after the call that fired a Protocol's connection_lost (no   *)
(* data_received, upgrade or other call made since), the current-consumer  *)
(* slot of the Protocol is empty or holds a consumer whose post_request    *)
(* has fired.                                                              *)
C26_NoFreshConsumerAfterLoss ==
    \A p \in Ps :
        (/\ Lost(p).fired
         /\ lastOp.op \in {"connection_lost", "close", "abort"}
         /\ lastOp.p = p
         /\ ~lastOp.fired)
        => \/ protocols[p].current_consumer = 0
           \/ consumers[protocols[p].current_consumer].post_request.fired

----------------------------------------------------------------------------
(* C28: Producer.requests_processed is the sum of Protocol.processed over  *)
(* the Protocols of the Producer, and the processed counter of a Protocol  *)
(* is the number of start() calls made on its consumers: every start()     *)
(* counts once on both, aborted or raising included, and nothing else      *)
(* counts.                                                                 *)

RECURSIVE SumProcessed(_)
SumProcessed(n) ==
    IF n = 0 THEN 0 ELSE protocols[n].processed + SumProcessed(n - 1)

\* the start() calls made on the first n consumers that belong to protocol p
RECURSIVE StartsOf(_, _)
StartsOf(p, n) ==
    IF n = 0 THEN 0
    ELSE (IF consumers[n].connection = p THEN consumers[n].starts ELSE 0)
         + StartsOf(p, n - 1)

C28_CountersAgree ==
    /\ producer.requests_processed = SumProcessed(Len(protocols))
    /\ \A p \in Ps : protocols[p].processed = StartsOf(p, Len(consumers))
    /\ lastOp.op = "start" => protocols[lastOp.p].processed >= 1

\* two requests counted, the last start() aborted by a pre_request observer
C28_Witness ==
    /\ lastOp.op = "start"
    /\ lastOp.info = "aborted"
    /\ producer.requests_processed = 2
    /\ Len(protocols) = 2

----------------------------------------------------------------------------
(* C29: when every feed_data call returns a remainder strictly shorter     *)
(* than the data it was given, the passes made so far and the bytes still  *)
(* to feed never exceed the length of the buffer, so that data_received    *)
(* ends within len(data) passes; the activity timestamp is not touched     *)
(* while the loop runs and is updated exactly once when the call ends      *)
(* normally.                                                               *)

\* every feed_data call of the current call returned a shorter remainder
Shrinking == \A i \in 1..Len(pc.log) : Len(pc.log[i].rest) < Len(pc.log[i].data)

\* the buffer the current call was given
Buffer == IF pc.log = <<>> THEN pc.data ELSE pc.log[1].data

C29_FeedTerminates ==
    /\ pc.state = "feed" =>
          /\ protocols[pc.p].changes = pc.base
          /\ Shrinking => Len(pc.log) + Len(pc.data) <= Len(Buffer)
          /\ Shrinking => Len(pc.log) < Len(Buffer)
    /\ (pc.state = "idle" /\ lastOp.op = "data_received") =>
          /\ Shrinking => Len(pc.log) <= Len(Buffer)
          /\ lastOp.info = "done" => protocols[pc.p].changes = pc.base + 1
          /\ lastOp.raised => protocols[pc.p].changes = pc.base

\* a second call on the Protocol, b"AB" fed in two shrinking passes
C29_Witness ==
    /\ pc.state = "idle"
    /\ lastOp.op = "data_received"
    /\ lastOp.info = "done"
    /\ Shrinking
    /\ Len(pc.log) = 2
    /\ Len(Buffer) = 2
    /\ pc.base = 1
    /\ protocols[pc.p].changes = 2

\* a call that made more passes than its buffer has bytes
MorePassesThanBytes ==
    /\ pc.state = "idle"
    /\ lastOp.info = "done"
    /\ Len(pc.log) > Len(Buffer)

----------------------------------------------------------------------------
(* C22: once the cancelled flag of a LoopingCall is set, no step clears    *)
(* it and no step adds a scheduling of the handle; a cancel() call of the  *)
(* user (no failure logged in the step) leaves what is armed, queued or    *)
(* awaited as it is; and the callback is invoked at most once after the    *)
(* flag was set, nothing being scheduled after that invocation.            *)

\* the schedulings of the handle pending in the loop: its entries in the
\* timer heap and in the ready queue
Pending(l) ==
    l.heap + Cardinality({i \in 1..Len(l.ready) : l.ready[i] = "call"})

C22_CancelStops ==
    [][/\ looping.cancelled =>
             /\ looping'.cancelled
             /\ Pending(looping') <= Pending(looping)
       /\ (~looping.cancelled /\ looping'.cancelled /\ looping'.logged = looping.logged) =>
             /\ looping'.calls = looping.calls
             /\ looping'.ready = looping.ready
             /\ looping'.timer = looping.timer
             /\ looping'.heap = looping.heap
             /\ looping'.fut = looping.fut
       /\ looping'.after <= 1
       /\ looping'.cancelled /\ looping'.after = 1 => Pending(looping') = 0]_vars

\* cancel() while the timer was armed: the callback ran once more, returned
\* a value, and nothing is scheduled
C22_Witness ==
    /\ looping.cancelled
    /\ looping.interval > 0
    /\ looping.after = 1
    /\ Len(looping.calls) = 2
    /\ looping.calls[2].result = "value"
    /\ looping.logged = 0
    /\ Pending(looping) = 0

----------------------------------------------------------------------------
(* C27: a LoopingCall has at most one scheduling of its handle pending in  *)
(* the loop (timer heap and ready queue together), none while the future   *)
(* its callback returned is awaited, and the timer heap is used only with  *)
(* an interval, the ready queue only without.                              *)
C27_OneScheduling ==
    /\ Pending(looping) <= 1
    /\ looping.fut = "pending" => Pending(looping) = 0
    /\ DoneCallbackQueued => Pending(looping) = 0
    /\ looping.interval > 0 =>
          \A i \in 1..Len(looping.ready) : looping.ready[i] # "call"
    /\ looping.interval = 0 => looping.heap = 0
    /\ looping.heap > 0 <=> looping.timer # NoTimer

\* rearmed after a future that resolved later, cancel() called since
C27_Witness ==
    /\ looping.cancelled
    /\ Len(looping.calls) = 1
    /\ looping.calls[1].result = "ok"
    /\ looping.fut = "ok"
    /\ Pending(looping) = 1
    /\ looping.ready = <<"call">>

====
